---- MODULE Spec2Model ----
(***************************************************************************)
(* Model of data_toolchest: the recursive JSON comparator                   *)
(* (json/json_compare.py, Python 2) and the addressed-value set algebra     *)
(* (nested_data/address_nested_data.py, compare_nested_data.py, Python 3).  *)
(*                                                                         *)
(* JSON values are records  [k, n, s]  (scalars),  [k, elems]  (lists) and  *)
(* [k, fields]  (dicts);  k  is the Python type of the value.  Floats are   *)
(* records [fk, fv]: finite (exact, integer valued), nan or +/-inf.         *)
(***************************************************************************)
EXTENDS Integers, Sequences, FiniteSets, TLC

\* one comparison run of json_compare.py, and the flat old/new export made
\* of its result
VARIABLES pc, key_tag, old_keyval, new_keyval, sig_diff_frac, outcome, flat

\* the AddressedValueSet objects of compare_nested_data.py: heap holds the
\* Python set objects that outlive a call, objs the AddressedValueSet objects
\* (with the ghost  built, the elements at the end of construction), last the
\* call just made
VARIABLES heap, objs, last

\* one call of value_drilldown of address_nested_data.py: its arguments and
\* the pairs the generator yielded
VARIABLES drill

diff_vars == <<pc, key_tag, old_keyval, new_keyval, sig_diff_frac, outcome, flat>>
avs_vars  == <<heap, objs, last, drill>>
vars      == <<diff_vars, avs_vars>>

(***************************************************************************)
(* Python values                                                            *)
(***************************************************************************)
IntV(n)  == [k |-> "int",      n |-> n, s |-> ""]
StrV(s)  == [k |-> "str",      n |-> 0, s |-> s]
NumV(n)  == [k |-> "float",    n |-> n, s |-> ""]
BoolV(b) == [k |-> "bool",     n |-> IF b THEN 1 ELSE 0, s |-> ""]
NoneV    == [k |-> "NoneType", n |-> 0, s |-> ""]
\* an integer outside the machine word: json.load returns a Python 2 long
LongV    == [k |-> "long",     n |-> 0, s |-> ""]
ListV(e) == [k |-> "list", elems |-> e]
DictV(f) == [k |-> "dict", fields |-> f]

\* old_keyval / new_keyval: False, or the one-entry dict {key_tag: value}
Absent     == [present |-> FALSE]
Present(v) == [present |-> TRUE, val |-> v]

Fin(n) == [fk |-> "fin", fv |-> n]
NaN    == [fk |-> "nan", fv |-> 0]
Inf(s) == [fk |-> "inf", fv |-> s]

Abs(n) == IF n < 0 THEN -n ELSE n
Min(a, b) == IF a <= b THEN a ELSE b
\* max(old_lt_len,new_lt_len), line 227
Max(a, b) == IF a >= b THEN a ELSE b

(***************************************************************************)
(* Module level tables of json_compare.py                                   *)
(***************************************************************************)
type_dict ==
    [t \in {"str", "int", "list", "bool", "float", "dict", "NoneType"} |->
        CASE t = "str"      -> "string"
          [] t = "int"      -> "integer"
          [] t = "list"     -> "array"
          [] t = "bool"     -> "boolean"
          [] t = "float"    -> "number"
          [] t = "dict"     -> "object"
          [] t = "NoneType" -> "None"]

container_dict == [t \in {"object", "array"} |->
                      IF t = "object" THEN "{...}" ELSE "[...]"]

\* what Python's float() returns for the string literals of the model;
\* every other string raises ValueError
FloatLiterals ==
    [s \in {"5", "5.0", "100", "91", "89", "nan", "inf"} |->
        CASE s = "5"   -> Fin(5)
          [] s = "5.0" -> Fin(5)
          [] s = "100" -> Fin(100)
          [] s = "91"  -> Fin(91)
          [] s = "89"  -> Fin(89)
          [] s = "nan" -> NaN
          [] s = "inf" -> Inf(1)]

\* float arithmetic (IEEE 754 special values, exact on the finite ones)
FSub(a, b) ==
    CASE a.fk = "nan" \/ b.fk = "nan"    -> NaN
      [] a.fk = "inf" /\ b.fk = "inf"    -> IF a.fv = b.fv THEN NaN ELSE Inf(a.fv)
      [] a.fk = "inf"                    -> Inf(a.fv)
      [] b.fk = "inf"                    -> Inf(-b.fv)
      [] OTHER                           -> Fin(a.fv - b.fv)

\* abs(f * frac) as the rational fv / fd
FAbsMulFrac(f, frac) ==
    CASE f.fk = "nan" -> [fk |-> "nan", fv |-> 0, fd |-> 1]
      [] f.fk = "inf" -> IF frac.num = 0 THEN [fk |-> "nan", fv |-> 0, fd |-> 1]
                                         ELSE [fk |-> "inf", fv |-> 1, fd |-> 1]
      [] OTHER        -> [fk |-> "fin", fv |-> Abs(f.fv * frac.num), fd |-> frac.den]

\* abs(d) <= thr
FAbsLe(d, thr) ==
    CASE d.fk = "nan" \/ thr.fk = "nan" -> FALSE
      [] thr.fk = "inf"                 -> TRUE
      [] d.fk = "inf"                   -> FALSE
      [] OTHER                          -> Abs(d.fv) * thr.fd <= thr.fv

(***************************************************************************)
(* test_string_to_float, test_value_diff                                    *)
(***************************************************************************)
\* ok = FALSE stands for the return value False
test_string_to_float(input_string) ==
    IF type_dict[input_string.k] \in {"string", "number", "integer"}
    THEN IF input_string.k = "str"
         THEN IF input_string.s \in DOMAIN FloatLiterals
              THEN [ok |-> TRUE, f |-> FloatLiterals[input_string.s]]
              ELSE [ok |-> FALSE, f |-> Fin(0)]
         ELSE [ok |-> TRUE, f |-> Fin(input_string.n)]
    ELSE [ok |-> FALSE, f |-> Fin(0)]

test_value_diff_comparing_all(old_val, new_val) ==
    LET old_val_float == test_string_to_float(old_val)
        new_val_float == test_string_to_float(new_val)
    IN  IF old_val_float.ok /\ new_val_float.ok
        THEN [out_flg |-> TRUE, dk |-> "float",
              d |-> FSub(old_val_float.f, new_val_float.f)]
        ELSE [out_flg |-> TRUE,
              dk |-> IF old_val = new_val THEN "True" ELSE "False",
              d |-> Fin(0)]

\* diff_val is a float (dk = "float") or one of the booleans True / False
test_value_diff(old_val, new_val) ==
    LET old_val_type  == type_dict[old_val.k]
        new_val_type  == type_dict[new_val.k]
        old_val_float == test_string_to_float(old_val)
        new_val_float == test_string_to_float(new_val)
    IN  IF old_val_float.ok /\ new_val_float.ok
        THEN [out_flg |-> TRUE, dk |-> "float",
              d |-> FSub(old_val_float.f, new_val_float.f)]
        ELSE IF old_val_type = "string" /\ new_val_type = "string"
        THEN [out_flg |-> TRUE,
              dk |-> IF old_val.s = new_val.s THEN "True" ELSE "False",
              d |-> Fin(0)]
        ELSE [out_flg |-> FALSE, dk |-> "False", d |-> Fin(0)]

\* the number abs() sees in diff_val: abs(True) = 1, abs(False) = 0
DiffValNumber(tvd) ==
    CASE tvd.dk = "float" -> tvd.d
      [] tvd.dk = "True"  -> Fin(1)
      [] OTHER            -> Fin(0)

(***************************************************************************)
(* Json_Dict_Compare_obj                                                    *)
(*                                                                         *)
(* An object under construction is the record  self.  compare_dict maps a   *)
(* category to the list of val_results records appended to it.  Two ghost   *)
(* components make properties statable: every val_results carries  node,    *)
(* the structural path of the node it was built for ([key, idx] with idx    *)
(* -1 for the key of an object, idx >= 0 for an index of an array), and     *)
(* calls  lists the constructor invocations of the run in the order they    *)
(* were made.                                                               *)
(***************************************************************************)
Categories == {"dropped", "new", "changed", "same"}

EmptyCompareDict == [c \in Categories |-> <<>>]

\* lexicographic order of the property names of the model, as sorted() sees it
KeyOrder == <<"", "(array elem-0)", "a", "a:b", "b">>

sorted_descending(keys) ==
    LET up == SelectSeq(KeyOrder, LAMBDA k : k \in keys)
    IN  [i \in 1..Len(up) |-> up[Len(up) + 1 - i]]

\* sorted(...) of a collection of property names
sorted(keys) == SelectSeq(KeyOrder, LAMBDA k : k \in keys)

\* the exception leaves no object behind
RaisedKeyError == [raised |-> TRUE, result_tag |-> "", compare_dict |-> EmptyCompareDict,
                   calls |-> <<>>]

\* self.val_results['diff'] = ';'.join(self.diff_msg_lt): val_results is one
\* dict object, so the copies already appended to compare_dict show the new text
set_diff(self) ==
    [self EXCEPT
        !.val_results.diff = self.diff_msg_lt,
        !.compare_dict = [c \in Categories |->
            [i \in 1..Len(@[c]) |->
                IF @[c][i].node = self.node
                THEN [@[c][i] EXCEPT !.diff = self.diff_msg_lt]
                ELSE @[c][i]]]]

\* self.compare_dict[self.result_tag].append(self.val_results)
append_val_results(self) ==
    [self EXCEPT !.compare_dict[self.result_tag] = Append(@, self.val_results)]

\* for compare_key,sub_lt in sub_compare_obj.compare_dict.items(): ... append(x)
merge_sub_compare_obj(self, sub) ==
    IF sub.raised
    THEN [self EXCEPT !.raised = TRUE]
    ELSE [self EXCEPT
            !.compare_dict = [c \in Categories |-> @[c] \o sub.compare_dict[c]],
            !.calls = @ \o sub.calls]

object_sub_val_truthy(val_type, val, k) ==
    IF val_type = "object" /\ k \in DOMAIN val.fields
          /\ val.fields[k] \notin {BoolV(FALSE), NoneV, IntV(0), StrV("")}
    THEN Present(val.fields[k]) ELSE Absent

\* lines 208-210: False, or {sub_key: container[k]} when k is a key of the
\* container and the container is an object
object_sub_val(val_type, val, k) ==
    IF val_type = "object" /\ k \in DOMAIN val.fields
    THEN Present(val.fields[k]) ELSE Absent

array_sub_val_padded(cnt, lt_len, val) ==
    IF cnt < lt_len THEN Present(val.elems[cnt + 1]) ELSE Present(NoneV)

\* lines 230-232: False, or {sub_key: container[cnt]} when cnt is below the
\* length counted for that side
array_sub_val(cnt, lt_len, val) ==
    IF cnt < lt_len THEN Present(val.elems[cnt + 1]) ELSE Absent

\* lines 216-218
lt_len_of(val_type, val) == IF val_type = "array" THEN Len(val.elems) ELSE 0

absence_and_type_check_untagged(old_present, new_present, old_val_type, new_val_type) ==
    IF ~old_present \/ ~new_present
    THEN IF ~old_present
         THEN [msg |-> "Key_tag not in original input file", tag |-> "new"]
         ELSE [msg |-> "Key-Tag not in new input file", tag |-> "dropped"]
    ELSE IF old_val_type # new_val_type
    THEN [msg |-> "ValueType changed", tag |-> "same"]
    ELSE [msg |-> "ValueType unchanged", tag |-> "same"]

\* lines 151-165: the tag and the first message, before any drilldown
absence_and_type_check(old_present, new_present, old_val_type, new_val_type) ==
    IF ~old_present \/ ~new_present
    THEN IF ~old_present
         THEN [msg |-> "Key_tag not in original input file", tag |-> "new"]
         ELSE [msg |-> "Key-Tag not in new input file", tag |-> "dropped"]
    ELSE IF old_val_type # new_val_type
    THEN [msg |-> "ValueType changed", tag |-> "changed"]
    ELSE [msg |-> "ValueType unchanged", tag |-> "same"]

not_significant_strict(diff_val, old_float, frac) ==
    LET thr == FAbsMulFrac(old_float, frac)
    IN  FAbsLe(diff_val, thr)
          /\ ~(diff_val.fk = "fin" /\ thr.fk = "fin" /\ Abs(diff_val.fv) * thr.fd = thr.fv)

\* lines 174-180: abs(diff_val) <= abs(float(old_val) * sig_diff_frac)
not_significant(diff_val, old_float, frac) ==
    FAbsLe(diff_val, FAbsMulFrac(old_float, frac))

keys_changed_by_count(old_val_keys, new_val_keys, old_val_type, new_val_type) ==
    \/ Cardinality(old_val_keys) # Cardinality(new_val_keys)
    \/ old_val_type # new_val_type

\* line 194: the lengths of the sorted key lists differ, or the lists, or the
\* types of the two sides
keys_changed(old_val_keys, new_val_keys, old_val_type, new_val_type) ==
    \/ Cardinality(old_val_keys) # Cardinality(new_val_keys)
    \/ old_val_keys # new_val_keys
    \/ old_val_type # new_val_type

RECURSIVE Json_Dict_Compare_obj(_, _, _, _, _)
RECURSIVE object_children(_, _, _)
RECURSIVE array_children(_, _, _)

\* lines 205-214: for k in combined_keys
object_children(self, combined_keys, i) ==
    IF i > Len(combined_keys) \/ self.raised
    THEN self
    ELSE LET k == combined_keys[i]
             sub_key == IF self.key_tag # "" THEN self.key_tag \o ":" \o k ELSE k
             sub_old_val == object_sub_val(self.old_val_type, self.old_val, k)
             sub_new_val == object_sub_val(self.new_val_type, self.new_val, k)
             sub_compare_obj ==
                 Json_Dict_Compare_obj(sub_key, sub_old_val, sub_new_val,
                                       self.sig_diff_frac, Append(self.node, [key |-> k, idx |-> -1]))
         IN  object_children(merge_sub_compare_obj(self, sub_compare_obj),
                             combined_keys, i + 1)

\* lines 227-236: for cnt in range(max(old_lt_len,new_lt_len)); cnt = i - 1
array_children(self, lt_len, i) ==
    IF i > lt_len \/ self.raised
    THEN self
    ELSE LET cnt == i - 1
             old_lt_len == lt_len_of(self.old_val_type, self.old_val)
             new_lt_len == lt_len_of(self.new_val_type, self.new_val)
             sub_key == IF self.key_tag # ""
                        THEN self.key_tag \o ":(array elem-" \o ToString(cnt) \o ")"
                        ELSE "array elem " \o ToString(cnt)
             sub_old_val == array_sub_val(cnt, old_lt_len, self.old_val)
             sub_new_val == array_sub_val(cnt, new_lt_len, self.new_val)
             sub_compare_obj ==
                 Json_Dict_Compare_obj(sub_key, sub_old_val, sub_new_val,
                                       self.sig_diff_frac,
                                       Append(self.node, [key |-> "", idx |-> cnt]))
         IN  array_children(merge_sub_compare_obj(self, sub_compare_obj), lt_len, i + 1)

\* lines 189-214
object_drilldown(self) ==
    LET old_val_keys == IF self.old_val_type = "object" THEN DOMAIN self.old_val.fields ELSE {}
        new_val_keys == IF self.new_val_type = "object" THEN DOMAIN self.new_val.fields ELSE {}
        keys_differ  == keys_changed(old_val_keys, new_val_keys,
                                     self.old_val_type, self.new_val_type)
        tagged ==
            IF self.result_tag \notin {"new", "dropped"}
            THEN IF keys_differ
                 THEN [self EXCEPT
                         !.result_tag = "changed",
                         !.diff_msg_lt =
                             IF Cardinality(old_val_keys) # Cardinality(new_val_keys)
                             THEN Append(@, "ObjectType number of keys changed")
                             ELSE IF old_val_keys # new_val_keys
                             THEN Append(@, "ObjectType set of keys changed")
                             ELSE @]
                 ELSE [self EXCEPT
                         !.diff_msg_lt = Append(@, "ObjectType length and keys appear unchanged")]
            ELSE self
        described == set_diff(tagged)
        recorded  == IF self.key_tag # "" THEN append_val_results(described) ELSE described
    IN  object_children(recorded, sorted(old_val_keys \cup new_val_keys), 1)

\* lines 215-236
array_drilldown(self) ==
    LET old_lt_len == lt_len_of(self.old_val_type, self.old_val)
        new_lt_len == lt_len_of(self.new_val_type, self.new_val)
        tagged ==
            IF self.result_tag \notin {"new", "dropped"}
            THEN IF old_lt_len # new_lt_len \/ self.old_val_type # self.new_val_type
                 THEN [self EXCEPT
                         !.result_tag = "changed",
                         !.diff_msg_lt = Append(@, "ArrayType number of elements changed")]
                 ELSE [self EXCEPT
                         !.diff_msg_lt = Append(@, "ArrayType element count appears unchanged")]
            ELSE self
        recorded == append_val_results(set_diff(tagged))
    IN  array_children(recorded, Max(old_lt_len, new_lt_len), 1)

container_drilldown(self) ==
    LET after_object == IF "object" \in {self.old_val_type, self.new_val_type}
                        THEN object_drilldown(self) ELSE self
    IN  IF after_object.raised THEN after_object
        ELSE IF "array" \in {self.old_val_type, self.new_val_type}
        THEN array_drilldown(after_object) ELSE after_object

\* lines 166-184, the node is not a container on either side
leaf_value_diff(self, both_present) ==
    LET tvd == test_value_diff(self.old_val, self.new_val)
        old_float == test_string_to_float(self.old_val)
        text ==
            IF tvd.dk = "True" /\ self.old_val_type = "string" /\ self.new_val_type = "string"
            THEN [self EXCEPT !.diff_msg_lt = Append(@, "StringValue unchanged")]
            ELSE IF tvd.dk = "False"
            THEN [self EXCEPT !.diff_msg_lt = Append(@, "StringValue changed"),
                              !.result_tag = "changed"]
            ELSE self
        numeric ==
            IF old_float.ok
            THEN IF not_significant(DiffValNumber(tvd), old_float.f, self.sig_diff_frac)
                 THEN [text EXCEPT !.diff_msg_lt =
                          Append(@, "Value numerical difference (not significant)")]
                 ELSE [text EXCEPT !.diff_msg_lt =
                          Append(@, "Value numerical difference (significant)"),
                                   !.result_tag = "changed"]
            ELSE text
        compared ==
            IF tvd.out_flg /\ both_present THEN numeric
            ELSE IF ~tvd.out_flg
            THEN [self EXCEPT !.diff_msg_lt = Append(@, "Cannot compare values")]
            ELSE self
    IN  append_val_results(set_diff(compared))

\* __init__, lines 107-184, for old_keyval / new_keyval that are False or a
\* one-entry dict; node is the ghost path of the node compared
Json_Dict_Compare_obj(tag, old_kv, new_kv, frac, node) ==
    IF \/ old_kv.present /\ old_kv.val.k \notin DOMAIN type_dict
       \/ new_kv.present /\ new_kv.val.k \notin DOMAIN type_dict
    THEN RaisedKeyError
    ELSE
    LET old_val      == IF old_kv.present THEN old_kv.val ELSE StrV("-")
        old_val_type == IF old_kv.present THEN type_dict[old_kv.val.k] ELSE "-"
        new_val      == IF new_kv.present THEN new_kv.val ELSE StrV("-")
        new_val_type == IF new_kv.present THEN type_dict[new_kv.val.k] ELSE "-"
        val_results  ==
            [key_tag |-> tag,
             old_val |-> IF old_val_type \in DOMAIN container_dict
                         THEN StrV(container_dict[old_val_type]) ELSE old_val,
             old_val_type |-> old_val_type,
             new_val |-> IF new_val_type \in DOMAIN container_dict
                         THEN StrV(container_dict[new_val_type]) ELSE new_val,
             new_val_type |-> new_val_type,
             diff |-> <<"N/A">>,
             node |-> node]
        container_cnt ==
            Cardinality({side \in {"old", "new"} :
                (IF side = "old" THEN old_val_type ELSE new_val_type) \in {"object", "array"}})
        absence == absence_and_type_check(old_kv.present, new_kv.present,
                                          old_val_type, new_val_type)
        self0 == [raised |-> FALSE, key_tag |-> tag, node |-> node,
                  sig_diff_frac |-> frac,
                  old_val |-> old_val, old_val_type |-> old_val_type,
                  new_val |-> new_val, new_val_type |-> new_val_type,
                  val_results |-> val_results,
                  diff_msg_lt |-> <<absence.msg>>,
                  result_tag |-> absence.tag,
                  compare_dict |-> EmptyCompareDict,
                  calls |-> <<>>]
        self1 == IF container_cnt > 0
                 THEN container_drilldown(self0)
                 ELSE leaf_value_diff(self0, old_kv.present /\ new_kv.present)
    IN  IF self1.raised THEN RaisedKeyError
        ELSE [raised |-> FALSE,
              result_tag |-> self1.result_tag,
              compare_dict |-> self1.compare_dict,
              calls |-> <<[node |-> node, key_tag |-> tag,
                           old_present |-> old_kv.present,
                           new_present |-> new_kv.present,
                           old_val_type |-> old_val_type,
                           new_val_type |-> new_val_type,
                           result_tag |-> self1.result_tag]>> \o self1.calls]

RECURSIVE concat_lists(_, _)
\* the records of the lists named by tags, in that order (lines 246-248)
concat_lists(compare_dict, tags) ==
    IF tags = <<>> THEN <<>>
    ELSE compare_dict[Head(tags)] \o concat_lists(compare_dict, Tail(tags))

\* lines 239-259 with include_key_lt and filter_key_lt left at []: a dict keyed
\* by key_tag (old / new stand for the keys 'OLD' / 'NEW'), a later record
\* replacing an earlier one of the same key_tag
construct_old_new_vals_flatdict(compare_dict, include_new, include_dropped) ==
    LET compare_dict_tags == <<"changed", "same">>
                                \o (IF include_new THEN <<"new">> ELSE <<>>)
                                \o (IF include_dropped THEN <<"dropped">> ELSE <<>>)
        results_lt == concat_lists(compare_dict, compare_dict_tags)
        tags == {results_lt[i].key_tag : i \in 1..Len(results_lt)}
    IN  [t \in tags |->
            LET at == {i \in 1..Len(results_lt) : results_lt[i].key_tag = t}
                result_obj == results_lt[CHOOSE i \in at : \A j \in at : j <= i]
            IN  [old |-> result_obj.old_val, new |-> result_obj.new_val]]

(***************************************************************************)
(* Inputs of the comparison runs                                            *)
(***************************************************************************)
MaxLen == 3

Seqs(S, n) == UNION {[1..m -> S] : m \in 0..n}

Dict1(k, v) == DictV([x \in {k} |-> v])

Leaves ==
    {IntV(0), IntV(1), IntV(2), IntV(5), IntV(89), IntV(90), IntV(91), IntV(100),
     IntV(-100), NumV(5), NumV(1),
     StrV(""), StrV("5"), StrV("5.0"), StrV("abc"), StrV("nan"), StrV("inf"),
     StrV("91"), StrV("100"),
     BoolV(TRUE), BoolV(FALSE), NoneV, LongV}

ArrElems == {IntV(1), IntV(2)}

GenLists == {ListV(e) : e \in Seqs(ArrElems, MaxLen)}

ObjKeys == {"a", "b"}

ObjLeaves == {IntV(1), IntV(0), BoolV(FALSE), NoneV, StrV("")}

GenDicts == {DictV(f) : f \in UNION {[K -> ObjLeaves] : K \in SUBSET ObjKeys}}

Nested ==
    {ListV(<<IntV(1), IntV(2), IntV(3)>>),
     Dict1("a", ListV(<<IntV(1)>>)),
     Dict1("a", ListV(<<>>)),
     Dict1("a", Dict1("b", IntV(1))),
     Dict1("a", StrV("nan")),
     Dict1("b", Dict1("a", StrV("nan"))),
     ListV(<<ListV(<<IntV(1)>>)>>),
     ListV(<<Dict1("a", IntV(1))>>),
     ListV(<<IntV(1), Dict1("a", ListV(<<IntV(2)>>))>>),
     Dict1("", IntV(1)),
     Dict1("", Dict1("a", IntV(1))),
     Dict1("a:b", IntV(1)),
     Dict1("(array elem-0)", IntV(2)),
     DictV([x \in {"a", "a:b"} |-> IF x = "a" THEN Dict1("b", IntV(2)) ELSE IntV(1)])}

Trees == Leaves \cup GenLists \cup GenDicts \cup Nested

\* sig_diff_frac as the fraction num / den (default 0.10)
Fractions == {[num |-> 0, den |-> 100], [num |-> 10, den |-> 100]}

\* key_tag of a direct constructor call: the top level, or a node named "a"
Tags == {"", "a"}

KeyVals == {Absent} \cup {Present(t) : t \in Trees}

NoOutcome == [raised |-> FALSE, result_tag |-> "", compare_dict |-> EmptyCompareDict,
              calls |-> <<>>]

\* no export made yet; include_new=True, include_dropped=False are the defaults
NoFlat == [include_new |-> TRUE, include_dropped |-> FALSE, metric_key_vals_dict |-> <<>>]

(***************************************************************************)
(* address_nested_data.py                                                   *)
(*                                                                         *)
(* An address is a tuple of components [key, idx]: idx = -1 for a property  *)
(* name, idx >= 0 (and key = "") for an array index.                        *)
(***************************************************************************)
KeyC(k) == [key |-> k, idx |-> -1]
IdxC(i) == [key |-> "", idx |-> i]

AddressedValue(address, value) == [address |-> address, value |-> value]

RECURSIVE value_drilldown(_, _)
RECURSIVE drill_list(_, _, _)
RECURSIVE drill_dict(_, _, _)

\* lines 59-61: for cnt, sub_value in enumerate(value); cnt = i - 1
drill_list(key_address, value, i) ==
    IF i > Len(value.elems) THEN <<>>
    ELSE value_drilldown(Append(key_address, IdxC(i - 1)), value.elems[i])
            \o drill_list(key_address, value, i + 1)

\* lines 63-65: for key, sub_value in value.items(), in the order of keys
drill_dict(key_address, value, keys) ==
    IF keys = <<>> THEN <<>>
    ELSE value_drilldown(Append(key_address, KeyC(Head(keys))), value.fields[Head(keys)])
            \o drill_dict(key_address, value, Tail(keys))

\* lines 53-54: a bare key becomes the one-element list [key_address]
key_list(key_address) ==
    IF key_address.bare THEN <<key_address.key>> ELSE key_address.keys

value_drilldown_emitting_empty(key_address, value) ==
    IF value.k \in {"bool", "float", "int", "str", "NoneType"}
    THEN <<AddressedValue(key_address, value)>>
    ELSE IF value.k = "list"
    THEN IF value.elems = <<>> THEN <<AddressedValue(key_address, value)>>
         ELSE drill_list(key_address, value, 1)
    ELSE IF value.k = "dict"
    THEN IF DOMAIN value.fields = {} THEN <<AddressedValue(key_address, value)>>
         ELSE drill_dict(key_address, value, sorted(DOMAIN value.fields))
    ELSE <<>>

\* lines 55-65, key_address a list: the sequence of (address, value) pairs the
\* generator yields
value_drilldown(key_address, value) ==
    IF value.k \in {"bool", "float", "int", "str", "NoneType"}
    THEN <<AddressedValue(key_address, value)>>
    ELSE IF value.k = "list"
    THEN drill_list(key_address, value, 1)
    ELSE IF value.k = "dict"
    THEN drill_dict(key_address, value, sorted(DOMAIN value.fields))
    ELSE <<>>

\* lines 20-38, for a file whose document is the object j_dict
address_json(j_dict) == drill_dict(<<>>, j_dict, sorted(DOMAIN j_dict.fields))

(***************************************************************************)
(* Python equality, hashing sets                                            *)
(***************************************************************************)
\* v == w for scalars: bool, int and float compare by number (True == 1 ==
\* 1.0), a str only equals a str, None only None
PyEq(v, w) ==
    LET numeric == {"bool", "int", "float"}
    IN  \/ v.k \in numeric /\ w.k \in numeric /\ v.n = w.n
        \/ v.k = "str" /\ w.k = "str" /\ v.s = w.s
        \/ v.k = "NoneType" /\ w.k = "NoneType"

\* AddressedValue is a NamedTuple: == and hash are those of the tuple
\* (address, value)
AddressedValueEq(x, y) == x.address = y.address /\ PyEq(x.value, y.value)

py_contains(so, x) == \E y \in so : AddressedValueEq(y, x)

RECURSIVE py_set(_)
\* set(iterable): a later element equal to an earlier one is not added
py_set(seq) ==
    IF seq = <<>> THEN {}
    ELSE LET so == py_set(SubSeq(seq, 1, Len(seq) - 1))
             x  == seq[Len(seq)]
         IN  IF py_contains(so, x) THEN so ELSE so \cup {x}

RECURSIVE py_set_union(_, _)
\* so.union(*others): a copy of so, then every element of each other that is
\* not yet in it
py_set_union(so, others) ==
    IF others = <<>> THEN so
    ELSE py_set_union(so \cup {x \in Head(others) : ~py_contains(so, x)}, Tail(others))

\* set_intersection of CPython: the smaller set is iterated (other on a tie)
\* and its elements are the ones kept
py_set_intersection2(so, other) ==
    IF Cardinality(other) > Cardinality(so)
    THEN {x \in so : py_contains(other, x)}
    ELSE {x \in other : py_contains(so, x)}

RECURSIVE py_set_intersection(_, _)
py_set_intersection(so, others) ==
    IF others = <<>> THEN so
    ELSE py_set_intersection(py_set_intersection2(so, Head(others)), Tail(others))

\* so.difference(*others)
py_set_difference(so, others) ==
    {x \in so : \A i \in 1..Len(others) : ~py_contains(others[i], x)}

(***************************************************************************)
(* AddressedValueSet                                                        *)
(***************************************************************************)
\* a source of a call: a path to a json file (ix indexes Files), an
\* AddressedValueSet (ix indexes objs), a set of AddressedValue (ix indexes
\* heap), or anything else
Source(kind, ix) == [kind |-> kind, ix |-> ix]

\* the json documents behind the paths:
\*   {"a": 1, "b": [0, "x"]}
\*   {"a": true, "b": [false, {"a": null, "b": []}]}
Files ==
    <<DictV([x \in {"a", "b"} |->
                IF x = "a" THEN IntV(1) ELSE ListV(<<IntV(0), StrV("x")>>)]),
      DictV([x \in {"a", "b"} |->
                IF x = "a" THEN BoolV(TRUE)
                ELSE ListV(<<BoolV(FALSE),
                             DictV([y \in {"a", "b"} |->
                                       IF y = "a" THEN NoneV ELSE ListV(<<>>)])>>)])>>

\* a set the caller wrote out:
\*   {AddressedValue(('a',), 1.0), AddressedValue(('b', 1), 'x')}
CallerSet ==
    {AddressedValue(<<KeyC("a")>>, NumV(1)),
     AddressedValue(<<KeyC("b"), IdxC(1)>>, StrV("x"))}

\* a set the caller wrote out with a plain tuple in it:
\*   {AddressedValue(('a',), 1), (('b', 0), 0)}
MixedSet ==
    {AddressedValue(<<KeyC("a")>>, IntV(1)),
     [item0 |-> <<KeyC("b"), IdxC(0)>>, item1 |-> IntV(0)]}

\* isinstance(d, AddressedValue), line 84
is_AddressedValue(d) == DOMAIN d = {"address", "value"}

addressedvalue_set_of_skipping(h, o, data) ==
    CASE data.kind = "path" -> [raised |-> FALSE, set |-> py_set(address_json(Files[data.ix]))]
      [] data.kind = "avs"  -> [raised |-> FALSE, set |-> h[o[data.ix].addressed_values]]
      [] data.kind = "set" /\ \A d \in h[data.ix] : is_AddressedValue(d)
                            -> [raised |-> FALSE, set |-> h[data.ix]]
      [] OTHER              -> [raised |-> FALSE, set |-> {}]

\* lines 62-87, source by source: the set yielded, or TypeError
addressedvalue_set_of(h, o, data) ==
    CASE data.kind = "path" -> [raised |-> FALSE, set |-> py_set(address_json(Files[data.ix]))]
      [] data.kind = "avs"  -> [raised |-> FALSE, set |-> h[o[data.ix].addressed_values]]
      [] data.kind = "set" /\ \A d \in h[data.ix] : is_AddressedValue(d)
                            -> [raised |-> FALSE, set |-> h[data.ix]]
      [] OTHER              -> [raised |-> TRUE, set |-> {}]

\* list(self.get_addressedvalue_sets(dataset)): the generator is run to its
\* end, a TypeError anywhere leaves no list
get_addressedvalue_sets(h, o, input_data) ==
    LET each == [i \in 1..Len(input_data) |-> addressedvalue_set_of(h, o, input_data[i])]
    IN  [raised |-> \E i \in 1..Len(input_data) : each[i].raised,
         sets   |-> [i \in 1..Len(input_data) |-> each[i].set]]

RECURSIVE py_set_symmetric_difference_chain(_, _)
\* so ^ others[1] ^ others[2] ^ ...
py_set_symmetric_difference_chain(so, others) ==
    IF others = <<>> THEN so
    ELSE py_set_symmetric_difference_chain(
             py_set_union(py_set_difference(so, <<Head(others)>>),
                          <<py_set_difference(Head(others), <<so>>)>>),
             Tail(others))

set_operation_result_pairwise(so, new_addressed_datasets, set_operation) ==
    CASE set_operation = "union" -> py_set_union(so, new_addressed_datasets)
      [] set_operation = "intersection" -> py_set_intersection(so, new_addressed_datasets)
      [] set_operation = "difference" -> py_set_difference(so, new_addressed_datasets)
      [] set_operation = "symmetric_difference" ->
            IF new_addressed_datasets = <<>> THEN {}
            ELSE py_set_symmetric_difference_chain(so, new_addressed_datasets)
      [] OTHER -> {}

set_operation_result_no_difference(so, new_addressed_datasets, set_operation) ==
    CASE set_operation = "union" -> py_set_union(so, new_addressed_datasets)
      [] set_operation = "intersection" -> py_set_intersection(so, new_addressed_datasets)
      [] set_operation = "difference" -> py_set_difference(so, new_addressed_datasets)
      [] set_operation = "symmetric_difference" -> py_set_union(so, new_addressed_datasets)
      [] OTHER -> {}

\* lines 46-56: the elements of the set the operation computes
set_operation_result(so, new_addressed_datasets, set_operation) ==
    CASE set_operation = "union" -> py_set_union(so, new_addressed_datasets)
      [] set_operation = "intersection" -> py_set_intersection(so, new_addressed_datasets)
      [] set_operation = "difference" -> py_set_difference(so, new_addressed_datasets)
      [] set_operation = "symmetric_difference" ->
            py_set_difference(py_set_union(so, new_addressed_datasets),
                              <<py_set_intersection(so, new_addressed_datasets)>>)
      [] OTHER -> {}

addressedvalueset_logic_in_place(h, o, self_ref, dataset, set_operation) ==
    LET so  == IF self_ref = 0 THEN {} ELSE h[self_ref]
        got == get_addressedvalue_sets(h, o, dataset)
    IN  IF got.raised
        THEN [raised |-> TRUE, heap |-> h, ref |-> 0]
        ELSE IF self_ref = 0
        THEN [raised |-> FALSE,
              heap |-> Append(h, set_operation_result(so, got.sets, set_operation)),
              ref |-> Len(h) + 1]
        ELSE [raised |-> FALSE,
              heap |-> [h EXCEPT ![self_ref] =
                           set_operation_result(so, got.sets, set_operation)],
              ref |-> self_ref]

\* lines 43-59: the heap after the call and the set object that
\* new_avs.addressed_values refers to; self_ref is 0 when the receiver's set is
\* the empty set() of a constructor that is still running
addressedvalueset_logic(h, o, self_ref, dataset, set_operation) ==
    LET so  == IF self_ref = 0 THEN {} ELSE h[self_ref]
        got == get_addressedvalue_sets(h, o, dataset)
    IN  IF got.raised
        THEN [raised |-> TRUE, heap |-> h, ref |-> 0]
        ELSE [raised |-> FALSE,
              heap |-> Append(h, set_operation_result(so, got.sets, set_operation)),
              ref |-> Len(h) + 1]

\* lines 89-96
addresses(so) == {nt.address : nt \in so}

\* lines 114-118: key in address
find_address_with_key(so, key) ==
    {adv \in so : \E i \in 1..Len(adv.address) : adv.address[i] = key}

find_value_by_equality(so, result) ==
    {adv \in so : PyEq(adv.value, result)}

\* lines 120-127
find_value(so, result) ==
    {adv \in so : adv.value.k = result.k /\ PyEq(adv.value, result)}

(***************************************************************************)
(* Calls on AddressedValueSet objects                                       *)
(***************************************************************************)
MaxArgs == 2

SetOperations == {"union", "intersection", "difference", "symmetric_difference"}

NoArg == [kind |-> "none", key |-> KeyC(""), value |-> NoneV]

\* last: the call just made.  result_ref / result are the set object of the
\* AddressedValueSet a set operation returned (ref 0: nothing returned),
\* yielded what a query produced.
NoCall == [op |-> "none", recv |-> 0, args |-> <<>>, arg |-> NoArg, raised |-> FALSE,
           result_ref |-> 0, result |-> {}, yielded |-> {}]

\* set objects made by the caller, not owned by an AddressedValueSet
CallerSets == {r \in 1..Len(heap) : \A i \in 1..Len(objs) : objs[i].addressed_values # r}

Sources ==
    {Source("path", f) : f \in 1..Len(Files)}
      \cup {Source("avs", i) : i \in 1..Len(objs)}
      \cup {Source("set", r) : r \in CallerSets}
      \cup {Source("list", 0)}

\* the objects the calls are made on: AddressedValueSet(path) for each of the
\* two paths, and the caller's own sets
InitialHeap ==
    <<py_set(address_json(Files[1])), py_set(address_json(Files[2])), MixedSet, CallerSet>>

InitialObjs ==
    <<[addressed_values |-> 1, built |-> py_set(address_json(Files[1]))],
      [addressed_values |-> 2, built |-> py_set(address_json(Files[2]))]>>

\* the arguments of a direct call of value_drilldown: a bare str or int key, or
\* a list of keys; any json value
KeyAddresses ==
    {[bare |-> TRUE, key |-> KeyC("k")],
     [bare |-> TRUE, key |-> IdxC(0)],
     [bare |-> FALSE, keys |-> <<>>],
     [bare |-> FALSE, keys |-> <<KeyC("a"), IdxC(1)>>]}

JsonValues == {t \in Trees : t.k \in {"bool", "float", "int", "str", "NoneType", "list", "dict"}}

NoDrill == [pc |-> "idle", key_address |-> [bare |-> FALSE, keys |-> <<>>],
            value |-> NoneV, yielded |-> <<>>, again |-> <<>>, twice |-> FALSE]

SearchKeys == {KeyC("a"), KeyC("b"), IdxC(0), IdxC(1)}

SearchValues == {IntV(1), BoolV(TRUE), NumV(1), IntV(0), BoolV(FALSE), NoneV, StrV("x")}

(***************************************************************************)
(* The comparison runs                                                      *)
(***************************************************************************)
Init ==
    /\ pc = "idle"
    /\ key_tag = ""
    /\ old_keyval = Absent
    /\ new_keyval = Absent
    /\ sig_diff_frac = [num |-> 10, den |-> 100]
    /\ outcome = NoOutcome
    /\ flat = NoFlat
    /\ heap = InitialHeap
    /\ objs = InitialObjs
    /\ last = NoCall
    /\ drill = NoDrill

\* example_compare_json_files: both paths exist, each parsed document becomes
\* the value of the key '' (lines 121-123, 130-132, 304-306)
CompareFiles ==
    /\ pc = "idle"
    /\ \E old \in Trees, new \in Trees, frac \in Fractions :
          /\ key_tag' = ""
          /\ old_keyval' = Present(old)
          /\ new_keyval' = Present(new)
          /\ sig_diff_frac' = frac
          /\ outcome' = Json_Dict_Compare_obj("", Present(old), Present(new), frac, <<>>)
    /\ pc' = "done"
    /\ flat' = NoFlat
    /\ UNCHANGED avs_vars

\* Json_Dict_Compare_obj(key_tag, old_keyval, new_keyval, sig_diff_frac) called
\* on its own, each side False (the default) or {key_tag: value}
CompareNode ==
    /\ pc = "idle"
    /\ \E tag \in Tags, old_kv \in KeyVals, new_kv \in KeyVals, frac \in Fractions :
          /\ key_tag' = tag
          /\ old_keyval' = old_kv
          /\ new_keyval' = new_kv
          /\ sig_diff_frac' = frac
          /\ outcome' = Json_Dict_Compare_obj(tag, old_kv, new_kv, frac, <<>>)
    /\ pc' = "done"
    /\ flat' = NoFlat
    /\ UNCHANGED avs_vars

\* construct_old_new_vals_flatdict(include_new=..., include_dropped=...) on the
\* comparison object, lines 239-259
ConstructFlatdict ==
    /\ pc = "done"
    /\ ~outcome.raised
    /\ \E include_new \in BOOLEAN, include_dropped \in BOOLEAN :
          flat' = [include_new |-> include_new, include_dropped |-> include_dropped,
                   metric_key_vals_dict |->
                       construct_old_new_vals_flatdict(outcome.compare_dict,
                                                       include_new, include_dropped)]
    /\ pc' = "exported"
    /\ UNCHANGED <<key_tag, old_keyval, new_keyval, sig_diff_frac, outcome>>
    /\ UNCHANGED avs_vars

\* the comparison object is dropped
Discard ==
    /\ pc \in {"done", "exported"}
    /\ pc' = "idle"
    /\ flat' = NoFlat
    /\ key_tag' = ""
    /\ old_keyval' = Absent
    /\ new_keyval' = Absent
    /\ sig_diff_frac' = [num |-> 10, den |-> 100]
    /\ outcome' = NoOutcome
    /\ UNCHANGED avs_vars

Next == CompareFiles \/ CompareNode \/ ConstructFlatdict \/ Discard

Spec == Init /\ [][Next]_vars

(***************************************************************************)
(* The calls on AddressedValueSet objects                                   *)
(***************************************************************************)
\* AddressedValueSet(*args), lines 26-31: self.addressed_values is the empty
\* set(), then the set of the union when there are args
Construct ==
    /\ last.op = "none"
    /\ \E args \in Seqs(Sources, MaxArgs) :
          LET r == IF args = <<>>
                   THEN [raised |-> FALSE, heap |-> Append(heap, {}), ref |-> Len(heap) + 1]
                   ELSE addressedvalueset_logic(heap, objs, 0, args, "union")
          IN  /\ heap' = SubSeq(r.heap, 1, Len(heap))
              /\ last' = [NoCall EXCEPT !.op = "__init__", !.args = args,
                                        !.raised = r.raised,
                                        !.result_ref = r.ref,
                                        !.result = IF r.raised THEN {} ELSE r.heap[r.ref]]
    /\ UNCHANGED <<objs, drill, diff_vars>>

\* union / intersection / difference / symmetric_difference, lines 98-112
SetOperation ==
    /\ last.op = "none"
    /\ \E op \in SetOperations, recv \in 1..Len(objs), args \in Seqs(Sources, MaxArgs) :
          LET r == addressedvalueset_logic(heap, objs, objs[recv].addressed_values, args, op)
          IN  /\ heap' = SubSeq(r.heap, 1, Len(heap))
              /\ last' = [NoCall EXCEPT !.op = op, !.recv = recv, !.args = args,
                                        !.raised = r.raised,
                                        !.result_ref = r.ref,
                                        !.result = IF r.raised THEN {} ELSE r.heap[r.ref]]
    /\ UNCHANGED <<objs, drill, diff_vars>>

\* addresses(), lines 89-96
Addresses ==
    /\ last.op = "none"
    /\ \E recv \in 1..Len(objs) :
          last' = [NoCall EXCEPT !.op = "addresses", !.recv = recv,
                      !.yielded = addresses(heap[objs[recv].addressed_values])]
    /\ UNCHANGED <<heap, objs, drill, diff_vars>>

\* find_address_with_key(key), lines 114-118
FindAddressWithKey ==
    /\ last.op = "none"
    /\ \E recv \in 1..Len(objs), key \in SearchKeys :
          last' = [NoCall EXCEPT !.op = "find_address_with_key", !.recv = recv,
                      !.arg = [kind |-> "key", key |-> key, value |-> NoneV],
                      !.yielded = find_address_with_key(heap[objs[recv].addressed_values], key)]
    /\ UNCHANGED <<heap, objs, drill, diff_vars>>

\* find_value(result), lines 120-127
FindValue ==
    /\ last.op = "none"
    /\ \E recv \in 1..Len(objs), result \in SearchValues :
          last' = [NoCall EXCEPT !.op = "find_value", !.recv = recv,
                      !.arg = [kind |-> "value", key |-> KeyC(""), value |-> result],
                      !.yielded = find_value(heap[objs[recv].addressed_values], result)]
    /\ UNCHANGED <<heap, objs, drill, diff_vars>>

\* the caller is done with what the call returned
Return ==
    /\ last.op # "none"
    /\ last' = NoCall
    /\ UNCHANGED <<heap, objs, drill, diff_vars>>

NextSets ==
    Construct \/ SetOperation \/ Addresses \/ FindAddressWithKey
        \/ FindValue \/ Return

SpecSets == Init /\ [][NextSets]_vars

(***************************************************************************)
(* The calls of value_drilldown                                             *)
(***************************************************************************)
\* list(value_drilldown(key_address, value)), lines 41-65
ValueDrilldown ==
    /\ drill.pc = "idle"
    /\ \E key_address \in KeyAddresses, value \in JsonValues :
          drill' = [NoDrill EXCEPT !.pc = "yielded",
                       !.key_address = key_address, !.value = value,
                       !.yielded = value_drilldown(key_list(key_address), value)]
    /\ UNCHANGED <<heap, objs, last, diff_vars>>

\* the same call once more, on the same arguments
ValueDrilldownAgain ==
    /\ drill.pc = "yielded"
    /\ ~drill.twice
    /\ drill' = [drill EXCEPT !.twice = TRUE,
                    !.again = value_drilldown(key_list(drill.key_address), drill.value)]
    /\ UNCHANGED <<heap, objs, last, diff_vars>>

\* the caller is done with the pairs
DrillReturn ==
    /\ drill.pc = "yielded"
    /\ drill' = NoDrill
    /\ UNCHANGED <<heap, objs, last, diff_vars>>

NextDrill == ValueDrilldown \/ ValueDrilldownAgain \/ DrillReturn

SpecDrill == Init /\ [][NextDrill]_vars

(***************************************************************************)
(* Properties of a comparison run (checked under Spec)                      *)
(***************************************************************************)
Returned == pc = "done" /\ ~outcome.raised

\* positions in the list of category c holding a record of the node
RecordsOf(node, c) ==
    {i \in 1..Len(outcome.compare_dict[c]) : outcome.compare_dict[c][i].node = node}

RECURSIVE SumOver(_, _)
SumOver(S, f) ==
    IF S = {} THEN 0
    ELSE LET x == CHOOSE y \in S : TRUE IN f[x] + SumOver(S \ {x}, f)

RecordCount(node) ==
    SumOver(Categories, [c \in Categories |-> Cardinality(RecordsOf(node, c))])

\* every record of the node is in the list of category c
AllRecordsIn(node, c) == \A d \in Categories \ {c} : RecordsOf(node, d) = {}

CallsOf(node) == {i \in 1..Len(outcome.calls) : outcome.calls[i].node = node}

RECURSIVE SubValue(_, _)
\* the old (or new) side of the node at path below the side kv of the run,
\* read off the input
SubValue(kv, path) ==
    IF path = <<>> \/ ~kv.present THEN kv
    ELSE LET c == Head(path)
             v == kv.val
         IN  IF c.idx = -1
             THEN IF v.k = "dict" /\ c.key \in DOMAIN v.fields
                  THEN SubValue(Present(v.fields[c.key]), Tail(path)) ELSE Absent
             ELSE IF v.k = "list" /\ c.idx < Len(v.elems)
                  THEN SubValue(Present(v.elems[c.idx + 1]), Tail(path)) ELSE Absent

IsKind(kv, kind) == kv.present /\ kv.val.k = kind

\* C1: every visited node whose key_tag is not '' has exactly one record, in
\* exactly one of the four lists.
C1_ExactlyOneRecordPerNode ==
    Returned =>
        \A i \in 1..Len(outcome.calls) :
            outcome.calls[i].key_tag # "" => RecordCount(outcome.calls[i].node) = 1

\* C2: comparing a tree with itself returns, and leaves changed, new and
\* dropped empty.
C2_SelfDiffIdentity ==
    (pc = "done" /\ old_keyval.present /\ new_keyval.present
        /\ old_keyval.val = new_keyval.val) =>
        /\ ~outcome.raised
        /\ outcome.compare_dict["changed"] = <<>>
        /\ outcome.compare_dict["new"] = <<>>
        /\ outcome.compare_dict["dropped"] = <<>>

\* the number a leaf value coerces to, if it does
Coerces(v) == \/ v.k \in {"int", "float"}
              \/ v.k = "str" /\ v.s \in DOMAIN FloatLiterals

NumberOf(v) == IF v.k = "str" THEN FloatLiterals[v.s] ELSE Fin(v.n)

\* |old - new| <= |old| x fraction, on floats: a comparison with nan is false,
\* inf - inf is nan, inf x 0 is nan
WithinSignificance(o, n, frac) ==
    IF o.fk = "fin" /\ n.fk = "fin"
    THEN Abs(o.fv - n.fv) * frac.den <= Abs(o.fv) * frac.num
    ELSE o.fk = "inf" /\ n.fk = "fin" /\ frac.num > 0

\* C3: a leaf present on both sides with equal semantic types whose two values
\* coerce to numbers is in same when |old - new| <= |old| x sig_diff_frac and in
\* changed otherwise; at 0.10, 100 vs 91 is same and 100 vs 89 is changed.
C3_SignificanceBoundary ==
    Returned =>
        /\ \A c \in Categories : \A i \in 1..Len(outcome.compare_dict[c]) :
              LET r == outcome.compare_dict[c][i]
              IN  (/\ r.old_val_type = r.new_val_type
                   /\ r.old_val_type \in {"string", "integer", "number"}
                   /\ Coerces(r.old_val) /\ Coerces(r.new_val)) =>
                      c = IF WithinSignificance(NumberOf(r.old_val), NumberOf(r.new_val),
                                                sig_diff_frac)
                          THEN "same" ELSE "changed"
        /\ (/\ IsKind(old_keyval, "int") /\ IsKind(new_keyval, "int")
            /\ old_keyval.val.n = 100 /\ sig_diff_frac = [num |-> 10, den |-> 100]) =>
              /\ new_keyval.val.n = 91 => Len(outcome.compare_dict["same"]) = 1
              /\ new_keyval.val.n = 89 => Len(outcome.compare_dict["changed"]) = 1

C3_Witness ==
    /\ Returned
    /\ IsKind(old_keyval, "int") /\ IsKind(new_keyval, "int")
    /\ old_keyval.val.n = 100 /\ new_keyval.val.n = 91
    /\ sig_diff_frac = [num |-> 10, den |-> 100]
    /\ Len(outcome.compare_dict["same"]) = 1
    /\ outcome.compare_dict["changed"] = <<>>

\* C4: a node present on both sides with different semantic types has its
\* record in changed, whatever the leaf comparison or the drilldown did after
\* the type check.
C4_TypePrecedence ==
    Returned =>
        \A i \in 1..Len(outcome.calls) :
            LET call == outcome.calls[i]
                o == SubValue(old_keyval, call.node)
                n == SubValue(new_keyval, call.node)
            IN  (o.present /\ n.present /\ type_dict[o.val.k] # type_dict[n.val.k]) =>
                    /\ AllRecordsIn(call.node, "changed")
                    /\ call.key_tag # "" => RecordsOf(call.node, "changed") # {}

C4_Witness ==
    /\ Returned
    /\ key_tag = "a"
    /\ IsKind(old_keyval, "str") /\ old_keyval.val.s = "5"
    /\ IsKind(new_keyval, "int") /\ new_keyval.val.n = 5
    /\ Len(outcome.compare_dict["changed"]) = 1
    /\ outcome.compare_dict["same"] = <<>>

\* C5: under a node that is an object on both sides, the node of a key k is
\* visited, and its category is new iff k is a key of the new object only,
\* dropped iff k is a key of the old object only, same or changed iff k is a key
\* of both, whatever the values are (false, null, 0 and '' included); its
\* records are in the list of that category.
C5_KeyPresence ==
    Returned =>
        \A i \in 1..Len(outcome.calls) :
            LET parent == outcome.calls[i].node
                o == SubValue(old_keyval, parent)
                n == SubValue(new_keyval, parent)
            IN  (IsKind(o, "dict") /\ IsKind(n, "dict")) =>
                    \A k \in DOMAIN o.val.fields \cup DOMAIN n.val.fields :
                        LET child  == Append(parent, KeyC(k))
                            in_old == k \in DOMAIN o.val.fields
                            in_new == k \in DOMAIN n.val.fields
                        IN  /\ CallsOf(child) # {}
                            /\ \A j \in CallsOf(child) :
                                  LET tag == outcome.calls[j].result_tag
                                  IN  /\ tag = "new" <=> (in_new /\ ~in_old)
                                      /\ tag = "dropped" <=> (in_old /\ ~in_new)
                                      /\ tag \in {"same", "changed"} <=> (in_old /\ in_new)
                                      /\ AllRecordsIn(child, tag)
                                      /\ outcome.calls[j].key_tag # "" =>
                                            RecordsOf(child, tag) # {}

C5_Witness ==
    /\ Returned
    /\ key_tag = ""
    /\ IsKind(old_keyval, "dict") /\ IsKind(new_keyval, "dict")
    /\ DOMAIN old_keyval.val.fields = {"a"}
    /\ DOMAIN new_keyval.val.fields = {"a", "b"}
    /\ old_keyval.val.fields["a"] = BoolV(FALSE)
    /\ new_keyval.val.fields["a"] = BoolV(FALSE)
    /\ new_keyval.val.fields["b"] = NoneV
    /\ Len(outcome.compare_dict["same"]) = 1
    /\ Len(outcome.compare_dict["new"]) = 1
    /\ outcome.compare_dict["new"][1].key_tag = "b"

\* C6: under a node that is an array on both sides exactly the indices
\* 0 .. max(old length, new length) - 1 are visited; index i carries old[i] and
\* new[i] and is same or changed below both lengths, dropped from the new
\* length on, new from the old length on; the array's own record is changed
\* iff the lengths differ.
C6_PositionalArrays ==
    Returned =>
        \A i \in 1..Len(outcome.calls) :
            LET parent == outcome.calls[i].node
                o == SubValue(old_keyval, parent)
                n == SubValue(new_keyval, parent)
            IN  (IsKind(o, "list") /\ IsKind(n, "list")) =>
                    LET ol == Len(o.val.elems)
                        nl == Len(n.val.elems)
                        summary == IF ol # nl THEN "changed" ELSE "same"
                        longest == IF ol >= nl THEN ol ELSE nl
                    IN  /\ outcome.calls[i].result_tag = summary
                        /\ AllRecordsIn(parent, summary)
                        /\ Cardinality(RecordsOf(parent, summary)) = 1
                        /\ \A j \in 1..Len(outcome.calls) :
                              LET node == outcome.calls[j].node
                              IN  (Len(node) = Len(parent) + 1
                                      /\ SubSeq(node, 1, Len(parent)) = parent) =>
                                      node[Len(node)].idx \in 0..(longest - 1)
                        /\ \A idx \in 0..(longest - 1) :
                              LET child == Append(parent, IdxC(idx))
                              IN  /\ Cardinality(CallsOf(child)) = 1
                                  /\ \A j \in CallsOf(child) :
                                        LET call == outcome.calls[j]
                                        IN  /\ idx >= nl <=> call.result_tag = "dropped"
                                            /\ idx >= ol <=> call.result_tag = "new"
                                            /\ call.old_val_type =
                                                  IF idx < ol THEN type_dict[o.val.elems[idx + 1].k]
                                                  ELSE "-"
                                            /\ call.new_val_type =
                                                  IF idx < nl THEN type_dict[n.val.elems[idx + 1].k]
                                                  ELSE "-"
                                            /\ AllRecordsIn(child, call.result_tag)
                                  /\ \A c \in Categories : \A x \in RecordsOf(child, c) :
                                        LET r == outcome.compare_dict[c][x]
                                        IN  /\ (idx < ol /\ o.val.elems[idx + 1].k \notin {"list", "dict"})
                                                => r.old_val = o.val.elems[idx + 1]
                                            /\ (idx < nl /\ n.val.elems[idx + 1].k \notin {"list", "dict"})
                                                => r.new_val = n.val.elems[idx + 1]

\* old = [1, 2, 3], new = [1, 2]
C6_Witness ==
    /\ Returned
    /\ IsKind(old_keyval, "list") /\ IsKind(new_keyval, "list")
    /\ old_keyval.val.elems = <<IntV(1), IntV(2), IntV(3)>>
    /\ new_keyval.val.elems = <<IntV(1), IntV(2)>>
    /\ Len(outcome.compare_dict["changed"]) = 1
    /\ outcome.compare_dict["changed"][1].node = <<>>
    /\ Len(outcome.compare_dict["dropped"]) = 1
    /\ outcome.compare_dict["dropped"][1].node = <<IdxC(2)>>
    /\ Len(outcome.compare_dict["same"]) = 2
    /\ outcome.compare_dict["same"][1].node = <<IdxC(0)>>
    /\ outcome.compare_dict["same"][2].node = <<IdxC(1)>>

\* C10: a call with both sides absent raises and produces no record.
C10_BothAbsentRaises ==
    (pc = "done" /\ ~old_keyval.present /\ ~new_keyval.present) =>
        /\ outcome.raised
        /\ \A c \in Categories : outcome.compare_dict[c] = <<>>

(***************************************************************************)
(* Properties of the AddressedValueSet calls (checked under SpecSets)       *)
(***************************************************************************)
SetOf(i) == heap[objs[i].addressed_values]

\* the elements a source contributes, read off the source
SourceElements(src) ==
    CASE src.kind = "path" -> {address_json(Files[src.ix])[x] :
                                  x \in 1..Len(address_json(Files[src.ix]))}
      [] src.kind = "avs"  -> objs[src.ix].built
      [] src.kind = "set"  -> InitialHeap[src.ix]
      [] OTHER             -> {}

CallReturned == last.op \in SetOperations \cup {"__init__"} /\ ~last.raised

\* C7: an element is one (address, value) pair with the type of the value: a
\* union holds every pair of the receiver and of the sources as it is, and a
\* difference drops a pair of the receiver only for the same address with the
\* same value of the same type in a source.
C7_TypeStrictElements ==
    /\ (last.op = "union" /\ ~last.raised) =>
          \A adv \in SetOf(last.recv) \cup
                       UNION {SourceElements(last.args[x]) : x \in 1..Len(last.args)} :
              adv \in last.result
    /\ (last.op = "difference" /\ ~last.raised) =>
          \A adv \in SetOf(last.recv) :
              adv \in last.result <=>
                  \A x \in 1..Len(last.args) : adv \notin SourceElements(last.args[x])

\* C8: no call changes the elements of the receiver or of a source, and the
\* set object behind the AddressedValueSet a call returns is a new one, with or
\* without sources.
C8_CallsLeaveSetsAlone ==
    /\ \A i \in 1..Len(objs) : SetOf(i) = objs[i].built
    /\ Len(heap) = Len(InitialHeap)
    /\ heap[Len(InitialHeap)] = CallerSet
    /\ heap = InitialHeap
    /\ \A i, j \in 1..Len(objs) :
          i # j => objs[i].addressed_values # objs[j].addressed_values
    /\ CallReturned => last.result_ref \notin 0..Len(heap)

C8_Witness ==
    /\ last.op = "intersection" /\ ~last.raised
    /\ last.args = <<>>
    /\ last.recv = 1
    /\ last.result = objs[1].built
    /\ last.result_ref = Len(heap) + 1

\* C9: A.union(A) and A.intersection(A) hold exactly the elements of A,
\* A.difference(A) and A.symmetric_difference(A) are empty.
C9_IdempotentSetAlgebra ==
    (last.op \in SetOperations /\ last.args = <<Source("avs", last.recv)>>) =>
        /\ ~last.raised
        /\ last.op \in {"union", "intersection"} => last.result = objs[last.recv].built
        /\ last.op \in {"difference", "symmetric_difference"} => last.result = {}

C9_Witness ==
    /\ last.op = "symmetric_difference" /\ ~last.raised
    /\ last.recv = 2
    /\ last.args = <<Source("avs", 2)>>
    /\ objs[2].built # {}
    /\ last.result = {}

\* a source that is not a path, not an AddressedValueSet and not a set made
\* only of AddressedValue elements
Unsupported(src) ==
    \/ src.kind \notin {"path", "avs", "set"}
    \/ src.kind = "set" /\ \E d \in InitialHeap[src.ix] : DOMAIN d # {"address", "value"}

\* C11: a constructor or set operation call with an unsupported source raises,
\* whatever its other sources are; nothing is returned, and the sets of the
\* receiver and of every other object are as they were; a call whose sources
\* are all supported does not raise.
C11_UnsupportedSourceRaises ==
    (last.op \in SetOperations \cup {"__init__"}) =>
        /\ last.raised <=> \E x \in 1..Len(last.args) : Unsupported(last.args[x])
        /\ last.raised =>
              /\ last.result_ref = 0
              /\ last.result = {}
              /\ heap = InitialHeap
              /\ \A i \in 1..Len(objs) : SetOf(i) = objs[i].built

\* f1.union('f2.json', {AddressedValue(...), (('b', 0), 0)})
C11_Witness ==
    /\ last.op = "union"
    /\ last.recv = 1
    /\ last.args = <<Source("path", 2), Source("set", 3)>>
    /\ last.raised
    /\ last.result_ref = 0

\* C14: A.symmetric_difference(S1..Sn), n >= 0, holds exactly the elements that
\* are in A or in some Si but not in A and every Si at once (membership as the
\* sets decide it); its elements are elements of A or of the sources, those of
\* A among them as A holds them, no two of them equal; for one source these are
\* the elements in exactly one of A and S, and without sources there are none.
C14_SymmetricDifference ==
    (last.op = "symmetric_difference" /\ ~last.raised) =>
        LET A == SetOf(last.recv)
            n == Len(last.args)
            S(i) == SourceElements(last.args[i])
            U == A \cup UNION {S(i) : i \in 1..n}
            In(T, x) == \E y \in T : AddressedValueEq(y, x)
        IN  /\ last.result \subseteq U
            /\ \A x \in U :
                  In(last.result, x) <=>
                      /\ In(A, x) \/ \E i \in 1..n : In(S(i), x)
                      /\ ~(In(A, x) /\ \A i \in 1..n : In(S(i), x))
            /\ \A x \in A : In(last.result, x) => x \in last.result
            /\ \A x, y \in last.result : AddressedValueEq(x, y) => x = y
            /\ n = 1 => \A x \in U :
                  In(last.result, x) <=> (In(A, x) /\ ~In(S(1), x)) \/ (In(S(1), x) /\ ~In(A, x))
            /\ n = 0 => last.result = {}

\* f1.symmetric_difference(f1, 'f2.json'): what is in one of the sets but not
\* in all three
C14_Witness ==
    /\ last.op = "symmetric_difference" /\ ~last.raised
    /\ last.recv = 1
    /\ last.args = <<Source("avs", 1), Source("path", 2)>>
    /\ last.result = {AddressedValue(<<KeyC("b"), IdxC(1)>>, StrV("x")),
                       AddressedValue(<<KeyC("b"), IdxC(1), KeyC("a")>>, NoneV)}

\* C15: find_value(target) yields exactly the pairs of the set whose value is
\* the target with the target's type: a search for the integer 1 yields no
\* pair holding true or 1.0, a search for false no pair holding the integer 0.
C15_FindValueTypeStrict ==
    last.op = "find_value" =>
        LET target == last.arg.value
        IN  /\ last.yielded = {adv \in SetOf(last.recv) : adv.value = target}
            /\ target = IntV(1) =>
                  \A adv \in last.yielded : adv.value \notin {BoolV(TRUE), NumV(1)}
            /\ target = BoolV(FALSE) =>
                  \A adv \in last.yielded : adv.value # IntV(0)

\* a search for the integer 1 in the set of {"a": true, ...} yields nothing
C15_Witness ==
    /\ last.op = "find_value"
    /\ last.recv = 2
    /\ last.arg.value = IntV(1)
    /\ AddressedValue(<<KeyC("a")>>, BoolV(TRUE)) \in SetOf(2)
    /\ last.yielded = {}

(***************************************************************************)
(* Further properties of a comparison run (checked under Spec)              *)
(***************************************************************************)
\* C12: the comparison of any two trees returns without raising, and what it
\* returns has exactly the lists same, changed, new and dropped.
C12_TotalComparison ==
    (pc = "done" /\ old_keyval.present /\ new_keyval.present) =>
        /\ ~outcome.raised
        /\ DOMAIN outcome.compare_dict = Categories

(***************************************************************************)
(* Properties of value_drilldown (checked under SpecDrill)                  *)
(***************************************************************************)
RECURSIVE LeafPaths(_)
\* the scalar leaves of a tree, each with the keys and indices on its path
LeafPaths(v) ==
    IF v.k = "list"
    THEN UNION {{[path |-> <<IdxC(i - 1)>> \o lp.path, leaf |-> lp.leaf] :
                    lp \in LeafPaths(v.elems[i])} : i \in 1..Len(v.elems)}
    ELSE IF v.k = "dict"
    THEN UNION {{[path |-> <<KeyC(k)>> \o lp.path, leaf |-> lp.leaf] :
                    lp \in LeafPaths(v.fields[k])} : k \in DOMAIN v.fields}
    ELSE {[path |-> <<>>, leaf |-> v]}

Range(seq) == {seq[i] : i \in 1..Len(seq)}

\* C13: value_drilldown yields one pair for each scalar leaf of the value, its
\* address the prefix followed by the keys and indices on the path to the leaf,
\* and nothing else: nothing for an empty object or array; a second call on the
\* same arguments yields the same set of pairs.
C13_OnePairPerLeaf ==
    drill.pc = "yielded" =>
        LET prefix == IF drill.key_address.bare THEN <<drill.key_address.key>>
                      ELSE drill.key_address.keys
            expected == {[address |-> prefix \o lp.path, value |-> lp.leaf] :
                            lp \in LeafPaths(drill.value)}
        IN  /\ Range(drill.yielded) = expected
            /\ Len(drill.yielded) = Cardinality(expected)
            /\ (drill.value.k = "list" /\ drill.value.elems = <<>>) => drill.yielded = <<>>
            /\ (drill.value.k = "dict" /\ DOMAIN drill.value.fields = {}) =>
                  drill.yielded = <<>>
            /\ drill.twice => Range(drill.again) = Range(drill.yielded)

\* value_drilldown('k', [1, {"a": [2]}]), twice
C13_Witness ==
    /\ drill.pc = "yielded"
    /\ drill.twice
    /\ drill.key_address = [bare |-> TRUE, key |-> KeyC("k")]
    /\ drill.value = ListV(<<IntV(1), Dict1("a", ListV(<<IntV(2)>>))>>)
    /\ drill.yielded = <<[address |-> <<KeyC("k"), IdxC(0)>>, value |-> IntV(1)],
                         [address |-> <<KeyC("k"), IdxC(1), KeyC("a"), IdxC(0)>>,
                          value |-> IntV(2)]>>

\* C16: a node that is an object on both sides is changed iff the old and the
\* new key sets differ and same iff they are equal, whatever its children are;
\* its record, one when the node has a key_tag, is in the list of that category.
C16_ObjectSummary ==
    Returned =>
        \A i \in 1..Len(outcome.calls) :
            LET call == outcome.calls[i]
                o == SubValue(old_keyval, call.node)
                n == SubValue(new_keyval, call.node)
            IN  (IsKind(o, "dict") /\ IsKind(n, "dict")) =>
                    LET summary == IF DOMAIN o.val.fields = DOMAIN n.val.fields
                                   THEN "same" ELSE "changed"
                    IN  /\ call.result_tag = summary
                        /\ AllRecordsIn(call.node, summary)
                        /\ call.key_tag # "" =>
                              Cardinality(RecordsOf(call.node, summary)) = 1

\* "a": {"a": 1, "b": 1} against "a": {"a": 0, "b": 1}: the object is same, the
\* child a:a is changed
C16_Witness ==
    /\ Returned
    /\ key_tag = "a"
    /\ IsKind(old_keyval, "dict") /\ IsKind(new_keyval, "dict")
    /\ DOMAIN old_keyval.val.fields = {"a", "b"}
    /\ DOMAIN new_keyval.val.fields = {"a", "b"}
    /\ old_keyval.val.fields["a"] = IntV(1) /\ new_keyval.val.fields["a"] = IntV(0)
    /\ Len(outcome.compare_dict["same"]) >= 1
    /\ outcome.compare_dict["same"][1].key_tag = "a"
    /\ Len(outcome.compare_dict["changed"]) = 1
    /\ outcome.compare_dict["changed"][1].key_tag = "a:a"

\* the message is one of those joined into the diff text of the record
HasMessage(r, msg) == \E x \in 1..Len(r.diff) : r.diff[x] = msg

\* two leaf values that are neither both numbers (or strings that read as
\* numbers) nor both strings
Incomparable(o, n) ==
    /\ o.k \in {"str", "int", "float", "bool", "NoneType"}
    /\ n.k \in {"str", "int", "float", "bool", "NoneType"}
    /\ ~(Coerces(o) /\ Coerces(n))
    /\ ~(o.k = "str" /\ n.k = "str")

SemanticType(v) ==
    CASE v.k = "str" -> "string" [] v.k = "int" -> "integer" [] v.k = "float" -> "number"
      [] v.k = "bool" -> "boolean" [] v.k = "NoneType" -> "None"
      [] v.k = "list" -> "array" [] v.k = "dict" -> "object"

\* C17: a comparison of two present leaf values that are neither both numbers
\* nor both strings returns; the record of such a leaf, at the top or below,
\* says that the values cannot be compared and is in same when the two semantic
\* types are equal (true against false is same) and in changed when they differ.
C17_CannotCompareKeepsCategory ==
    /\ (pc = "done" /\ old_keyval.present /\ new_keyval.present
            /\ Incomparable(old_keyval.val, new_keyval.val)) => ~outcome.raised
    /\ Returned =>
          \A i \in 1..Len(outcome.calls) :
              LET node == outcome.calls[i].node
                  o == SubValue(old_keyval, node)
                  n == SubValue(new_keyval, node)
              IN  (o.present /\ n.present /\ Incomparable(o.val, n.val)) =>
                      LET category == IF SemanticType(o.val) = SemanticType(n.val)
                                      THEN "same" ELSE "changed"
                      IN  /\ Cardinality(RecordsOf(node, category)) = 1
                          /\ AllRecordsIn(node, category)
                          /\ \A x \in RecordsOf(node, category) :
                                HasMessage(outcome.compare_dict[category][x],
                                           "Cannot compare values")

\* true against false: one record, in same, with the cannot-compare message
C17_Witness ==
    /\ Returned
    /\ old_keyval = Present(BoolV(TRUE))
    /\ new_keyval = Present(BoolV(FALSE))
    /\ outcome.compare_dict["changed"] = <<>>
    /\ Len(outcome.compare_dict["same"]) = 1
    /\ outcome.compare_dict["same"][1].diff = <<"ValueType unchanged", "Cannot compare values">>

\* the place of a property name in the order of strings
KeyRank(k) == CHOOSE x \in 1..Len(KeyOrder) : KeyOrder[x] = k

IsProperPrefix(p, q) == Len(p) < Len(q) /\ SubSeq(q, 1, Len(p)) = p

\* the first position at which two paths differ, 0 if one is a prefix of the
\* other
FirstDifference(p, q) ==
    LET m == IF Len(p) <= Len(q) THEN Len(p) ELSE Len(q)
        D == {x \in 1..m : p[x] # q[x]}
    IN  IF D = {} THEN 0 ELSE CHOOSE x \in D : \A y \in D : x <= y

\* C18: in every list the records are in traversal order: the record of a
\* container is before the records of its descendants, the records under two
\* keys of an object are in the sorted order of the keys, and the records under
\* two indices of an array are in increasing index.
C18_TraversalOrder ==
    Returned =>
        \A c \in Categories : \A i, j \in 1..Len(outcome.compare_dict[c]) :
            i < j =>
                LET p == outcome.compare_dict[c][i].node
                    q == outcome.compare_dict[c][j].node
                    d == FirstDifference(p, q)
                IN  /\ ~IsProperPrefix(q, p)
                    /\ (d > 0 /\ p[d].idx = -1 /\ q[d].idx = -1) =>
                          KeyRank(p[d].key) < KeyRank(q[d].key)
                    /\ (d > 0 /\ p[d].idx >= 0 /\ q[d].idx >= 0) => p[d].idx < q[d].idx

\* "a": {"a": 1, "b": 0} against itself: same holds a, then a:a, then a:b
C18_Witness ==
    /\ Returned
    /\ key_tag = "a"
    /\ old_keyval = Present(DictV([x \in {"a", "b"} |-> IF x = "a" THEN IntV(1) ELSE IntV(0)]))
    /\ new_keyval = old_keyval
    /\ Len(outcome.compare_dict["same"]) = 3
    /\ outcome.compare_dict["same"][1].node = <<>>
    /\ outcome.compare_dict["same"][2].node = <<KeyC("a")>>
    /\ outcome.compare_dict["same"][3].node = <<KeyC("b")>>

\* C19: a node absent on the old side is new and a node absent on the new side
\* is dropped, with all its records, whatever the drilldown and the leaf
\* comparison do afterwards; so is every descendant of a new or dropped node,
\* and every child that one side lacks because that side is a scalar or a
\* container of the other kind, with its whole subtree.
C19_NewAndDroppedAreFinal ==
    Returned =>
        \A i \in 1..Len(outcome.calls) :
            LET call == outcome.calls[i]
                o == SubValue(old_keyval, call.node)
                n == SubValue(new_keyval, call.node)
            IN  /\ ~o.present =>
                      /\ call.result_tag = "new"
                      /\ AllRecordsIn(call.node, "new")
                /\ (o.present /\ ~n.present) =>
                      /\ call.result_tag = "dropped"
                      /\ AllRecordsIn(call.node, "dropped")
                /\ call.result_tag \in {"new", "dropped"} =>
                      \A j \in 1..Len(outcome.calls) :
                          IsProperPrefix(call.node, outcome.calls[j].node) =>
                              /\ outcome.calls[j].result_tag = call.result_tag
                              /\ AllRecordsIn(outcome.calls[j].node, call.result_tag)
                /\ (o.present /\ n.present) => call.result_tag \in {"same", "changed"}

\* [1, {"a": [2]}] against [1]: the element 1, its key a and the element under
\* it are all dropped
C19_Witness ==
    /\ Returned
    /\ key_tag = ""
    /\ old_keyval = Present(ListV(<<IntV(1), Dict1("a", ListV(<<IntV(2)>>))>>))
    /\ new_keyval = Present(ListV(<<IntV(1)>>))
    /\ Len(outcome.compare_dict["dropped"]) = 3
    /\ outcome.compare_dict["dropped"][1].node = <<IdxC(1)>>
    /\ outcome.compare_dict["dropped"][2].node = <<IdxC(1), KeyC("a")>>
    /\ outcome.compare_dict["dropped"][3].node = <<IdxC(1), KeyC("a"), IdxC(0)>>
    /\ outcome.compare_dict["new"] = <<>>

\* the lists an export reads
ExportedLists ==
    {"changed", "same"} \cup (IF flat.include_new THEN {"new"} ELSE {})
                        \cup (IF flat.include_dropped THEN {"dropped"} ELSE {})

\* C20: within one comparison two different nodes never have the same key_tag,
\* and the export holds, for every record of the lists it reads, the old and
\* new values of that record under its key_tag.
C20_DistinctKeyTags ==
    /\ Returned =>
          \A i, j \in 1..Len(outcome.calls) :
              outcome.calls[i].node # outcome.calls[j].node =>
                  outcome.calls[i].key_tag # outcome.calls[j].key_tag
    /\ pc = "exported" =>
          \A c \in ExportedLists : \A i \in 1..Len(outcome.compare_dict[c]) :
              LET r == outcome.compare_dict[c][i]
              IN  /\ r.key_tag \in DOMAIN flat.metric_key_vals_dict
                  /\ flat.metric_key_vals_dict[r.key_tag] =
                        [old |-> r.old_val, new |-> r.new_val]

====
